---- MODULE Spec2Model ----
(***************************************************************************)
(* Mac NPI Ramp Sequencer (src/app.py).                                    *)
(*                                                                         *)
(* One pass of the script reads the table returned by the data editor,     *)
(* strips rows with missing cells, resolves the feasible quantity of each  *)
(* line, builds the Plain (A) and the Optimized (B) schedule and derives   *)
(* the metrics.  A DataFrame is a sequence of records; the field idx is    *)
(* the row's index label, which pandas keeps apart from the row's position.*)
(***************************************************************************)
EXTENDS Integers, Sequences, FiniteSets, TLC

\* ---------------------------------------------------------------- bounds
MaxRows == 3      \* rows of the edited table

\* The values the cells of an edited row are drawn from.  They respect the
\* column_config of the editor: Demand Qty >= 1, Material On-Hand >= 0,
\* Cycle Time (Sec) >= 1.
DemandChoices == {2}
OnHandChoices == {0, 3}
CycleChoices == {1, 2}

\* ------------------------------------------------------ program constants
Air13 == "MacBook Air 13 (M3)"
Pro14 == "MacBook Pro 14 (M4)"
Hot == "Hot (VP Demo)"
Standard == "Standard"

mac_models == {Air13, Pro14}
priorities == {Hot, Standard}

DefaultShiftHours == 10
DefaultChangeoverMin == 15
SecondsPerMinute == 60

VARIABLES
    edited_df,           \* the table returned by st.data_editor
    shift_hours,         \* st.session_state.shift_hours
    changeover_min,      \* st.session_state.changeover_min
    pc,                  \* "start", "stopped", "raised" or "done"
    clean_df,            \* the resolved lines
    tasks_a, total_time_a, df_a_ordered,
    tasks_b, total_time_b, df_b_ordered,
    time_saved_seconds, total_shortage,
    utilization_a, utilization_b

config == <<shift_hours, changeover_min>>
outputs == <<clean_df, tasks_a, total_time_a, df_a_ordered,
             tasks_b, total_time_b, df_b_ordered,
             time_saved_seconds, total_shortage, utilization_a, utilization_b>>
vars == <<edited_df, shift_hours, changeover_min, pc, clean_df,
          tasks_a, total_time_a, df_a_ordered,
          tasks_b, total_time_b, df_b_ordered,
          time_saved_seconds, total_shortage, utilization_a, utilization_b>>

\* ------------------------------------------------------------- the table
\* One row of the editor.  na is TRUE when some cell of the row is missing
\* (a row added in the dynamic editor and not filled in yet).
Row(m, p, d, o, c) ==
    [Model_Name |-> m, Priority |-> p, Demand_Qty |-> d,
     Material_On_Hand |-> o, Cycle_Time |-> c, na |-> FALSE]

NaRow ==
    [Model_Name |-> Air13, Priority |-> Standard, Demand_Qty |-> 1,
     Material_On_Hand |-> 0, Cycle_Time |-> 1, na |-> TRUE]

\* pd.DataFrame({...}): the rows get the RangeIndex 0, 1, 2, ...
DataFrame(rows) ==
    [p \in 1..Len(rows) |->
        [idx |-> p - 1, Model_Name |-> rows[p].Model_Name,
         Priority |-> rows[p].Priority, Demand_Qty |-> rows[p].Demand_Qty,
         Material_On_Hand |-> rows[p].Material_On_Hand,
         Cycle_Time |-> rows[p].Cycle_Time, na |-> rows[p].na]]

default_data ==
    DataFrame(<<Row(Air13, Standard, 40, 50, 45), Row(Pro14, Standard, 25, 20, 60),
                Row(Air13, Hot, 10, 5, 45), Row(Pro14, Standard, 15, 20, 60)>>)

\* The rows the column_config of the editor admits, within the bounds.
RowChoices ==
    {Row(m, p, d, o, c) : m \in mac_models, p \in priorities,
                          d \in DemandChoices, o \in OnHandChoices,
                          c \in CycleChoices} \cup {NaRow}

\* Scenario 1 of the design notes: no priority tags, material never short.
scenario_1 ==
    DataFrame(<<Row(Air13, Standard, 40, 40, 45), Row(Pro14, Standard, 25, 25, 60),
                Row(Air13, Standard, 30, 30, 45), Row(Pro14, Standard, 15, 15, 60)>>)

\* ------------------------------------------------------ lines 114 to 123
\* edited_df.dropna(how="any"): the surviving rows keep their index labels.
dropna(df) == SelectSeq(df, LAMBDA r : ~r.na)

Min2(a, b) == IF a <= b THEN a ELSE b

\* The requested quantity in place of the feasible one.
Feasible_Qty_requested(row) == row.Demand_Qty

Feasible_Qty(row) == Min2(row.Demand_Qty, row.Material_On_Hand)

\* Feasible Qty, Shortage and Is_Short columns.
ConstraintLogic(df) ==
    [p \in 1..Len(df) |->
        [idx |-> df[p].idx, Model_Name |-> df[p].Model_Name,
         Priority |-> df[p].Priority, Demand_Qty |-> df[p].Demand_Qty,
         Material_On_Hand |-> df[p].Material_On_Hand,
         Cycle_Time |-> df[p].Cycle_Time,
         Feasible_Qty |-> Feasible_Qty(df[p]),
         Shortage |-> df[p].Demand_Qty - Feasible_Qty(df[p]),
         Is_Short |-> df[p].Demand_Qty - Feasible_Qty(df[p]) > 0]]

\* ------------------------------------------------------ lines 84 and 85
changeover_penalty_seconds == changeover_min * SecondsPerMinute

\* ---------------------------------------------------- calculate_schedule
\* The two ranks exchanged.
priority_map_swapped(p) == IF p = Hot THEN 1 ELSE 0

priority_map(p) == IF p = Hot THEN 0 ELSE 1

\* list(dict.fromkeys(col)): the distinct values in order of first appearance.
RECURSIVE fromkeys(_, _)
fromkeys(col, acc) ==
    IF col = <<>> THEN acc
    ELSE fromkeys(Tail(col),
                  IF \E j \in 1..Len(acc) : acc[j] = Head(col)
                  THEN acc ELSE Append(acc, Head(col)))

\* order.index(x), 0-based.
index(order, x) == (CHOOSE j \in 1..Len(order) : order[j] = x) - 1

Model_Rank(df, x) ==
    index(fromkeys([p \in 1..Len(df) |-> df[p].Model_Name], <<>>), x)

\* df["Priority_Rank"] and df["Model_Rank"] (lines 142 to 145).
WithRanks(df) ==
    [p \in 1..Len(df) |->
        [Model_Name |-> df[p].Model_Name, Priority |-> df[p].Priority,
         Cycle_Time |-> df[p].Cycle_Time,
         Feasible_Qty |-> df[p].Feasible_Qty, Demand_Qty |-> df[p].Demand_Qty,
         Priority_Rank |-> priority_map(df[p].Priority),
         Model_Rank |-> Model_Rank(df, df[p].Model_Name)]]

\* The key of one row under
\* groupby(["Priority", "Priority_Rank", "Model Name", "Model_Rank", "Cycle Time (Sec)"]).
GroupKey(row) ==
    [Priority |-> row.Priority, Priority_Rank |-> row.Priority_Rank,
     Model_Name |-> row.Model_Name, Model_Rank |-> row.Model_Rank,
     Cycle_Time |-> row.Cycle_Time]

RECURSIVE SumSeq(_)
SumSeq(s) == IF s = <<>> THEN 0 ELSE Head(s) + SumSeq(Tail(s))

\* "first" in place of "sum" for the feasible quantity.
agg_first(df, k) ==
    [Priority |-> k.Priority, Priority_Rank |-> k.Priority_Rank,
     Model_Name |-> k.Model_Name, Model_Rank |-> k.Model_Rank,
     Cycle_Time |-> k.Cycle_Time,
     Feasible_Qty |->
        df[CHOOSE p \in 1..Len(df) :
              /\ GroupKey(df[p]) = k
              /\ \A q \in 1..(p - 1) : GroupKey(df[q]) # k].Feasible_Qty,
     Demand_Qty |->
        SumSeq([p \in 1..Len(df) |-> IF GroupKey(df[p]) = k THEN df[p].Demand_Qty ELSE 0])]

\* .agg({"Feasible Qty": "sum", "Demand Qty": "sum"}) of the group with key k.
agg(df, k) ==
    [Priority |-> k.Priority, Priority_Rank |-> k.Priority_Rank,
     Model_Name |-> k.Model_Name, Model_Rank |-> k.Model_Rank,
     Cycle_Time |-> k.Cycle_Time,
     Feasible_Qty |->
        SumSeq([p \in 1..Len(df) |-> IF GroupKey(df[p]) = k THEN df[p].Feasible_Qty ELSE 0]),
     Demand_Qty |->
        SumSeq([p \in 1..Len(df) |-> IF GroupKey(df[p]) = k THEN df[p].Demand_Qty ELSE 0])]

\* No grouping: one row per input row.
groupby_rows(df) ==
    {[Priority |-> df[p].Priority, Priority_Rank |-> df[p].Priority_Rank,
      Model_Name |-> df[p].Model_Name, Model_Rank |-> df[p].Model_Rank,
      Cycle_Time |-> df[p].Cycle_Time, Feasible_Qty |-> df[p].Feasible_Qty,
      Demand_Qty |-> df[p].Demand_Qty, pos |-> p] : p \in 1..Len(df)}

\* One aggregated row per distinct key.
groupby(df) == {agg(df, GroupKey(df[p])) : p \in 1..Len(df)}

\* sort_values(by=["Priority_Rank", "Model_Rank"]) is a stable sort of the
\* groupby output, which comes sorted by its key columns: rows that tie on
\* both ranks have the same priority and the same model, so they stay in
\* ascending order of cycle time.
RowBefore(x, y) ==
    \/ x.Priority_Rank < y.Priority_Rank
    \/ x.Priority_Rank = y.Priority_Rank /\ x.Model_Rank < y.Model_Rank
    \/ x.Priority_Rank = y.Priority_Rank /\ x.Model_Rank = y.Model_Rank
       /\ x.Cycle_Time <= y.Cycle_Time

RECURSIVE sort_values(_)
sort_values(S) ==
    IF S = {} THEN <<>>
    ELSE LET first == CHOOSE x \in S : \A y \in S : RowBefore(x, y)
         IN  <<first>> \o sort_values(S \ {first})

\* reset_index(drop=True): the labels become the positions 0, 1, 2, ...
reset_index(df) ==
    [p \in 1..Len(df) |->
        [idx |-> p - 1, Model_Name |-> df[p].Model_Name, Priority |-> df[p].Priority,
         Priority_Rank |-> df[p].Priority_Rank, Model_Rank |-> df[p].Model_Rank,
         Cycle_Time |-> df[p].Cycle_Time,
         Feasible_Qty |-> df[p].Feasible_Qty, Demand_Qty |-> df[p].Demand_Qty]]

\* Lines 139 to 154: the rows the loop walks.
process_df(df, optimize) ==
    IF optimize THEN reset_index(sort_values(groupby(WithRanks(df)))) ELSE df

\* A changeover block that takes no time.
ChangeoverTask_instant(model, t) ==
    [Label |-> "Setup", Model |-> <<"Changeover to", model>>,
     Start_Sec |-> t, Finish_Sec |-> t,
     Type |-> "Changeover", Quantity |-> 0]

ChangeoverTask(model, t) ==
    [Label |-> "Setup", Model |-> <<"Changeover to", model>>,
     Start_Sec |-> t, Finish_Sec |-> t + changeover_penalty_seconds,
     Type |-> "Changeover", Quantity |-> 0]

ProductionTask(row, t) ==
    [Label |-> row.Model_Name, Model |-> <<row.Model_Name, row.Feasible_Qty>>,
     Start_Sec |-> t, Finish_Sec |-> t + row.Feasible_Qty * row.Cycle_Time,
     Type |-> "Production", Quantity |-> row.Feasible_Qty,
     Priority |-> row.Priority]

\* process_df.iloc[i-1] raises IndexError when i-1 is not a position of the frame.
iloc_raises(df, i) == i - 1 >= Len(df)

\* A changeover before every row but the first, the models not compared.
is_changeover_every_row(df, row) == row.idx > 0

\* Lines 161 to 165.  i is the index LABEL of the row that iterrows() yields,
\* and iloc[i-1] is the row at POSITION i-1 (0-based), df[i] here.
is_changeover(df, row) ==
    row.idx > 0 /\ df[row.idx].Model_Name # row.Model_Name

\* The cursor left where it was.
after_changeover_stale(t) == t

\* Line 177: current_time_seconds += changeover_penalty_seconds.
after_changeover(t) == t + changeover_penalty_seconds

\* Lines 156 to 192, from the row at position p (1-based) on.
RECURSIVE Loop(_, _, _, _)
Loop(df, p, tasks, current_time_seconds) ==
    IF p > Len(df)
    THEN [raised |-> FALSE, tasks |-> tasks, total |-> current_time_seconds, df |-> df]
    ELSE LET row == df[p] IN
         IF row.idx > 0 /\ iloc_raises(df, row.idx)
         THEN [raised |-> TRUE, tasks |-> tasks, total |-> current_time_seconds, df |-> df]
         ELSE LET co == is_changeover(df, row)
                  t1 == IF co THEN after_changeover(current_time_seconds)
                        ELSE current_time_seconds
                  withSetup == IF co
                               THEN Append(tasks, ChangeoverTask(row.Model_Name, current_time_seconds))
                               ELSE tasks
              IN  Loop(df, p + 1, Append(withSetup, ProductionTask(row, t1)),
                       t1 + row.Feasible_Qty * row.Cycle_Time)

calculate_schedule(df, optimize) == Loop(process_df(df, optimize), 1, <<>>, 0)

\* ------------------------------------------------------ lines 200 to 207
Production(tasks) == SelectSeq(tasks, LAMBDA t : t.Type = "Production")
Changeovers(tasks) == SelectSeq(tasks, LAMBDA t : t.Type = "Changeover")

\* The finish times summed, the start times not subtracted.
prod_time_finish(tasks) ==
    SumSeq([j \in 1..Len(Production(tasks)) |-> Production(tasks)[j].Finish_Sec])

prod_time(tasks) ==
    SumSeq([j \in 1..Len(Production(tasks)) |->
                Production(tasks)[j].Finish_Sec - Production(tasks)[j].Start_Sec])

\* prod_time / total_time * 100, kept exact as the fraction num/den; 0 when the
\* total is 0.
utilization(tasks, total_time) ==
    IF total_time > 0 THEN [num |-> prod_time(tasks) * 100, den |-> total_time]
    ELSE [num |-> 0, den |-> 1]

\* ---------------------------------------------------------------- actions
Init ==
    /\ \/ \E n \in 0..MaxRows : \E rows \in [1..n -> RowChoices] :
             edited_df = DataFrame(rows)
       \/ edited_df = scenario_1
    /\ shift_hours = DefaultShiftHours
    /\ changeover_min = DefaultChangeoverMin
    /\ pc = "start"
    /\ clean_df = <<>>
    /\ tasks_a = <<>> /\ total_time_a = 0 /\ df_a_ordered = <<>>
    /\ tasks_b = <<>> /\ total_time_b = 0 /\ df_b_ordered = <<>>
    /\ time_saved_seconds = 0 /\ total_shortage = 0
    /\ utilization_a = [num |-> 0, den |-> 1]
    /\ utilization_b = [num |-> 0, den |-> 1]

\* Lines 114 to 118: no row survives dropna, st.stop().
script_stop ==
    /\ pc = "start"
    /\ dropna(edited_df) = <<>>
    /\ pc' = "stopped"
    /\ UNCHANGED <<edited_df, config, outputs>>

\* Line 196: the Plain run raises IndexError and the script run ends there.
script_raise ==
    /\ pc = "start"
    /\ dropna(edited_df) # <<>>
    /\ calculate_schedule(ConstraintLogic(dropna(edited_df)), FALSE).raised
    /\ pc' = "raised"
    /\ clean_df' = ConstraintLogic(dropna(edited_df))
    /\ UNCHANGED <<edited_df, config, tasks_a, total_time_a, df_a_ordered,
                   tasks_b, total_time_b, df_b_ordered,
                   time_saved_seconds, total_shortage, utilization_a, utilization_b>>

\* Lines 114 to 207: one complete run of the script.  Each intermediate value
\* is bound once, in the order the script computes it.
script_done ==
    /\ pc = "start"
    /\ dropna(edited_df) # <<>>
    /\ \E c \in {ConstraintLogic(dropna(edited_df))} :
       \E a \in {calculate_schedule(c, FALSE)} :
           /\ ~a.raised
           /\ \E b \in {calculate_schedule(c, TRUE)} :
                /\ ~b.raised
                /\ clean_df' = c
                /\ tasks_a' = a.tasks /\ total_time_a' = a.total /\ df_a_ordered' = a.df
                /\ tasks_b' = b.tasks /\ total_time_b' = b.total /\ df_b_ordered' = b.df
                /\ time_saved_seconds' = a.total - b.total
                /\ total_shortage' = SumSeq([p \in 1..Len(c) |-> c[p].Shortage])
                /\ utilization_b' = utilization(b.tasks, b.total)
                /\ utilization_a' = utilization(a.tasks, a.total)
    /\ pc' = "done"
    /\ UNCHANGED <<edited_df, config>>

\* Lines 38 to 47, the "Reset to Simulation" button, and the editor showing
\* the restored table on the rerun that follows.
reset_defaults ==
    /\ pc # "start"
    /\ edited_df' = default_data
    /\ shift_hours' = DefaultShiftHours
    /\ changeover_min' = DefaultChangeoverMin
    /\ pc' = "start"
    /\ clean_df' = <<>>
    /\ tasks_a' = <<>> /\ total_time_a' = 0 /\ df_a_ordered' = <<>>
    /\ tasks_b' = <<>> /\ total_time_b' = 0 /\ df_b_ordered' = <<>>
    /\ time_saved_seconds' = 0 /\ total_shortage' = 0
    /\ utilization_a' = [num |-> 0, den |-> 1]
    /\ utilization_b' = [num |-> 0, den |-> 1]

Next == script_stop \/ script_raise \/ script_done \/ reset_defaults

Spec == Init /\ [][Next]_vars
\* ------------------------------------------------------------- properties
\* Vocabulary of the properties, stated over the resolved input lines and the
\* blocks of a result.
NumChangeovers(tasks) == Len(Changeovers(tasks))

DistinctModels(df) == {df[p].Model_Name : p \in 1..Len(df)}

\* Adjacent positions of df where the model changes.
Transitions(df) ==
    Cardinality({p \in 2..Len(df) : df[p].Model_Name # df[p - 1].Model_Name})

\* Position of the first row of df with model m.
FirstPos(df, m) ==
    CHOOSE p \in 1..Len(df) :
        /\ df[p].Model_Name = m
        /\ \A q \in 1..(p - 1) : df[q].Model_Name # m

\* min(Demand Qty, Material On-Hand) of an input line, from its two cells.
LineFeasible(row) ==
    IF row.Demand_Qty <= row.Material_On_Hand THEN row.Demand_Qty
    ELSE row.Material_On_Hand

TotalFeasible(df) == SumSeq([p \in 1..Len(df) |-> LineFeasible(df[p])])

TotalWork(df) == SumSeq([p \in 1..Len(df) |-> LineFeasible(df[p]) * df[p].Cycle_Time])

Duration(t) == t.Finish_Sec - t.Start_Sec

Contiguous(tasks, total) ==
    /\ Len(tasks) > 0
    /\ tasks[1].Start_Sec = 0
    /\ \A j \in 1..(Len(tasks) - 1) : tasks[j].Finish_Sec = tasks[j + 1].Start_Sec
    /\ total = tasks[Len(tasks)].Finish_Sec

\* C1: in both modes the returned blocks are contiguous and non-overlapping:
\* the first block starts at 0, every block finishes where the next one
\* starts, and the returned total time is the finish of the last block.
C1_Contiguous ==
    pc = "done" =>
        /\ Contiguous(tasks_a, total_time_a)
        /\ Contiguous(tasks_b, total_time_b)

C1_Witness ==
    /\ pc = "done"
    /\ NumChangeovers(tasks_a) >= 1
    /\ NumChangeovers(tasks_b) >= 1
    /\ Len(tasks_a) >= 4

\* Production blocks of tasks_b for model m.
BlocksOfModel(m) ==
    {j \in 1..Len(tasks_b) : tasks_b[j].Type = "Production" /\ tasks_b[j].Label = m}

\* Production blocks of tasks_b for priority pr, model m and cycle time c; the
\* j-th Production block is built from the j-th row of df_b_ordered.
BlocksOfCombination(pr, m, c) ==
    {j \in 1..Len(Production(tasks_b)) :
        /\ Production(tasks_b)[j].Priority = pr
        /\ Production(tasks_b)[j].Label = m
        /\ df_b_ordered[j].Cycle_Time = c}

\* C2 as stated: every model that appears in more than one input row, whatever
\* the rows' priorities and cycle times, has exactly one Production block in
\* the Optimized result.
C2_OneBlockPerModel ==
    pc = "done" =>
        \A m \in DistinctModels(clean_df) :
            Cardinality({p \in 1..Len(clean_df) : clean_df[p].Model_Name = m}) > 1
                => Cardinality(BlocksOfModel(m)) = 1

\* C2 as amended: every combination of priority, model and cycle time that
\* appears in the input has exactly one Production block in the Optimized
\* result, so a model whose rows all share one priority and one cycle time
\* has exactly one Production block.
C2_OneBlockPerCombination ==
    pc = "done" =>
        /\ Len(Production(tasks_b)) = Len(df_b_ordered)
        /\ \A p \in 1..Len(clean_df) :
             Cardinality(BlocksOfCombination(clean_df[p].Priority,
                                             clean_df[p].Model_Name,
                                             clean_df[p].Cycle_Time)) = 1
        /\ \A m \in DistinctModels(clean_df) :
             (\A p, q \in 1..Len(clean_df) :
                 clean_df[p].Model_Name = m /\ clean_df[q].Model_Name = m
                     => /\ clean_df[p].Priority = clean_df[q].Priority
                        /\ clean_df[p].Cycle_Time = clean_df[q].Cycle_Time)
                 => Cardinality(BlocksOfModel(m)) = 1

C2_Witness ==
    /\ pc = "done"
    /\ \E p, q \in 1..Len(clean_df) :
        /\ p < q
        /\ clean_df[p].Model_Name = clean_df[q].Model_Name
        /\ clean_df[p].Priority = clean_df[q].Priority
        /\ clean_df[p].Cycle_Time = clean_df[q].Cycle_Time
        /\ Cardinality(BlocksOfModel(clean_df[p].Model_Name)) = 1

\* C3: in the Optimized result every Hot Production block comes before every
\* Standard one, and blocks of equal priority are in the order in which their
\* models first appear in the input.
C3_PriorityThenFirstAppearance ==
    pc = "done" =>
        \A j, k \in 1..Len(Production(tasks_b)) :
            j < k =>
                /\ ~(Production(tasks_b)[j].Priority = Standard
                     /\ Production(tasks_b)[k].Priority = Hot)
                /\ Production(tasks_b)[j].Priority = Production(tasks_b)[k].Priority
                     => FirstPos(clean_df, Production(tasks_b)[j].Label)
                            <= FirstPos(clean_df, Production(tasks_b)[k].Label)

C3_Witness ==
    /\ pc = "done"
    /\ Len(Production(tasks_b)) >= 3
    /\ clean_df[1].Priority = Standard
    /\ Production(tasks_b)[1].Priority = Hot
    /\ Production(tasks_b)[2].Label # Production(tasks_b)[3].Label
    /\ Production(tasks_b)[2].Priority = Production(tasks_b)[3].Priority

\* C4 as stated: in Plain mode the number of Changeover blocks is the number of
\* positions i > 0 of the rows reaching the builder where the model of row i
\* differs from the model of row i-1.
C4_PlainChangeovers ==
    pc = "done" => NumChangeovers(tasks_a) = Transitions(clean_df)

\* No model of df is listed under two different priorities.
OnePriorityPerModel(df) ==
    \A p, q \in 1..Len(df) :
        df[p].Model_Name = df[q].Model_Name => df[p].Priority = df[q].Priority

\* C5: in Optimized mode, when no model appears under two priorities, there
\* are (distinct models - 1) Changeover blocks and the total duration is the
\* sum of feasible quantity x cycle time over the lines plus that many
\* changeovers; Scenario 1 takes 8250 s plain, 6450 s optimized, 1800 s saved.
C5_OptimizedChangeovers ==
    /\ pc = "done" /\ OnePriorityPerModel(clean_df) =>
        /\ NumChangeovers(tasks_b) = Cardinality(DistinctModels(clean_df)) - 1
        /\ total_time_b = TotalWork(clean_df)
              + (Cardinality(DistinctModels(clean_df)) - 1) * changeover_penalty_seconds
    /\ pc = "done" /\ edited_df = scenario_1 /\ changeover_min = 15 =>
        /\ total_time_a = 8250
        /\ total_time_b = 6450
        /\ time_saved_seconds = 1800

C5_Witness ==
    /\ pc = "done"
    /\ edited_df = scenario_1
    /\ NumChangeovers(tasks_b) = 1

\* Feasible quantity of the input lines with priority pr, model m and cycle time c.
FeasibleOfCombination(pr, m, c) ==
    SumSeq([p \in 1..Len(clean_df) |->
                IF /\ clean_df[p].Priority = pr
                   /\ clean_df[p].Model_Name = m
                   /\ clean_df[p].Cycle_Time = c
                THEN LineFeasible(clean_df[p]) ELSE 0])

\* C6: the quantity of every Production block is the feasible quantity
\* min(Demand Qty, Material On-Hand) of the line it stands for (summed over
\* the merged lines in Optimized mode), never the requested quantity, and its
\* duration is that quantity times the cycle time; demand 10, on-hand 5, cycle
\* 45 gives quantity 5 and duration 225 s.
C6_FeasibleQuantity ==
    pc = "done" =>
        /\ Len(Production(tasks_a)) = Len(clean_df)
        /\ \A p \in 1..Len(clean_df) :
             /\ Production(tasks_a)[p].Quantity = LineFeasible(clean_df[p])
             /\ Duration(Production(tasks_a)[p])
                    = LineFeasible(clean_df[p]) * clean_df[p].Cycle_Time
        /\ Len(Production(tasks_b)) = Len(df_b_ordered)
        /\ \A j \in 1..Len(df_b_ordered) :
             /\ Production(tasks_b)[j].Quantity
                    = FeasibleOfCombination(Production(tasks_b)[j].Priority,
                                            Production(tasks_b)[j].Label,
                                            df_b_ordered[j].Cycle_Time)
             /\ Duration(Production(tasks_b)[j])
                    = Production(tasks_b)[j].Quantity * df_b_ordered[j].Cycle_Time
        /\ edited_df = default_data =>
             /\ clean_df[3].Demand_Qty = 10
             /\ Production(tasks_a)[3].Quantity = 5
             /\ Duration(Production(tasks_a)[3]) = 225
             /\ Production(tasks_b)[1].Quantity = 5
             /\ Duration(Production(tasks_b)[1]) = 225

C6_Witness ==
    /\ pc = "done"
    /\ edited_df = default_data
    /\ Production(tasks_a)[3].Quantity = 5

InPercentRange(u) == u.den > 0 /\ 0 <= u.num /\ u.num <= 100 * u.den

\* C7: for both results the utilization lies in [0, 100], and it is 0 when the
\* total duration is 0.
C7_Utilization ==
    pc = "done" =>
        /\ InPercentRange(utilization_a)
        /\ InPercentRange(utilization_b)
        /\ total_time_a = 0 => utilization_a.num = 0
        /\ total_time_b = 0 => utilization_b.num = 0

C7_Witness ==
    /\ pc = "done"
    /\ Len(clean_df) >= 2
    /\ total_time_a = 0
    /\ total_time_b = 0
    /\ utilization_a.num = 0
    /\ utilization_b.num = 0

\* C8 as stated: every row list that reaches the builder, also one whose leading
\* rows were stripped, gets a result in both modes whose first block is a
\* Production block; a single line gives one Production block and no
\* changeover in both modes, identical results and 0 seconds saved.
C8_ProductionFirst ==
    pc \in {"done", "raised"} =>
        /\ pc = "done"
        /\ tasks_a[1].Type = "Production"
        /\ tasks_b[1].Type = "Production"
        /\ Len(clean_df) = 1 =>
             /\ Len(tasks_a) = 1
             /\ tasks_b = tasks_a
             /\ time_saved_seconds = 0

AllTasks == {tasks_a[j] : j \in 1..Len(tasks_a)} \cup {tasks_b[j] : j \in 1..Len(tasks_b)}

\* C9 as stated: every block of every result starts at 0 or later and finishes
\* strictly after it starts.
C9_PositiveDuration ==
    pc = "done" =>
        \A t \in AllTasks : t.Start_Sec >= 0 /\ t.Finish_Sec > t.Start_Sec

\* C9 as amended: every block starts at 0 or later and does not finish before
\* it starts; it finishes strictly after it starts when it is a Changeover
\* block or a Production block of quantity 1 or more, and at its start when it
\* is a Production block of quantity 0.
C9_NonNegativeDuration ==
    pc = "done" =>
        \A t \in AllTasks :
            /\ t.Start_Sec >= 0
            /\ t.Finish_Sec >= t.Start_Sec
            /\ t.Type = "Changeover" \/ t.Quantity >= 1 => t.Finish_Sec > t.Start_Sec
            /\ t.Type = "Production" /\ t.Quantity = 0 => t.Finish_Sec = t.Start_Sec

C9_Witness ==
    /\ pc = "done"
    /\ \E j, k \in 1..Len(tasks_a) :
        /\ tasks_a[j].Type = "Production" /\ tasks_a[j].Quantity = 0
        /\ tasks_a[k].Type = "Changeover"
    /\ \E j \in 1..Len(tasks_b) : tasks_b[j].Type = "Production" /\ tasks_b[j].Quantity >= 1

SumQuantity(tasks) ==
    SumSeq([j \in 1..Len(Production(tasks)) |-> Production(tasks)[j].Quantity])

SumDuration(tasks) ==
    SumSeq([j \in 1..Len(Production(tasks)) |-> Duration(Production(tasks)[j])])

\* C10: the Plain and the Optimized result hold the same work: the Production
\* quantities sum to the feasible quantity of the input lines and the
\* Production durations to feasible quantity x cycle time in both, so the time
\* saved is the changeover penalty times (Plain changeovers - Optimized
\* changeovers), which can be negative.
C10_SameWork ==
    pc = "done" =>
        /\ SumQuantity(tasks_a) = TotalFeasible(clean_df)
        /\ SumQuantity(tasks_b) = TotalFeasible(clean_df)
        /\ SumDuration(tasks_a) = TotalWork(clean_df)
        /\ SumDuration(tasks_b) = TotalWork(clean_df)
        /\ time_saved_seconds
              = changeover_penalty_seconds * (NumChangeovers(tasks_a) - NumChangeovers(tasks_b))

C10_Witness ==
    /\ pc = "done"
    /\ time_saved_seconds < 0
    /\ Len(edited_df) = Len(clean_df)
    /\ \E p, q \in 1..Len(clean_df) :
        /\ p < q
        /\ clean_df[p].Model_Name = clean_df[q].Model_Name
        /\ clean_df[p].Cycle_Time = clean_df[q].Cycle_Time
        /\ LineFeasible(clean_df[p]) > 0
====
